---------------------------- MODULE Spec2Model ----------------------------
(***************************************************************************)
(* A model of the zone-derivation engine of ShipCleaningLocatorGIS         *)
(* (src/zoneCalculator.js, class ZoneCalculator).                          *)
(*                                                                         *)
(* Geometry.  Coordinates are integers in units of 0.0005 degrees, so the  *)
(* program's lengths are: land buffer 0.0005 = 1, default bufferSize       *)
(* 0.001 = 2, default gridResolution 0.005 = 10, index cell 0.01 = 20.     *)
(* A region (polygon) is the set of lattice sites it contains; a point is  *)
(* a site <<x, y>>.  turf.union / intersect / difference are the set       *)
(* operations, turf.buffer is dilation by a Euclidean radius, and          *)
(* turf.difference / turf.intersect return null exactly when the result    *)
(* is empty, so the empty region stands for null.  turf.simplify moves a   *)
(* boundary by less than its tolerance (0.0001 degrees = 0.2 unit): a      *)
(* simplified zone is a pair (cells, spill) where spill are the sites,     *)
(* outside cells, that the simplified boundary cuts into.                  *)
(*                                                                         *)
(* Control.  calculateRecommendedZones is an async function; an action is  *)
(* the code that runs between two awaits.  Spec runs one invocation at a   *)
(* time on one calculator, whose cache directory and zones directory       *)
(* persist between invocations.                                            *)
(***************************************************************************)
EXTENDS Integers, Naturals, Sequences, FiniteSets, TLC

VARIABLES
    cfg,        \* the calculator's options (constructor)
    cache,      \* cacheDir: cache key -> stored result, or NoEntry
    zonesFile,  \* zonesDir: the zones_<date>.json file, or NoEntry
    now,        \* the clock (Date.now), one tick per invocation
    run,        \* the frame of the invocation of calculateRecommendedZones
    prev,       \* how the previous invocation ended
    plog,       \* SpecProgress: the frame of the progress computation
    srv,        \* SpecServer: the status, the clock, the requests and the runs
    smp,        \* SpecSampler: the frame of the water mask and of the grid scan
    opt,        \* SpecOptimizer: the frame of one call of optimizeZones
    dm,         \* SpecData: the files, the network and the frame of getAllData
    leg         \* SpecLegacy: the status, the cache and the run of server.js

vars == <<cfg, cache, zonesFile, now, run, prev, plog, srv, smp, opt, dm, leg>>

(***************************************************************************)
(* Bounds of the model.                                                    *)
(***************************************************************************)
MaxCalls == 2
MaxSpill == 1

(***************************************************************************)
(* Arithmetic helpers.                                                     *)
(***************************************************************************)
Floor(a, b) == a \div b

Ceil(a, b) == -((-a) \div b)

MinOf(S) == CHOOSE m \in S : \A n \in S : m <= n

MaxOf(S) == CHOOSE m \in S : \A n \in S : m >= n

RECURSIVE SeqOfSet(_)
SeqOfSet(S) ==
    IF S = {} THEN <<>>
    ELSE LET m == CHOOSE e \in S : TRUE IN <<m>> \o SeqOfSet(S \ {m})

RECURSIVE Flatten(_)
Flatten(ss) == IF ss = <<>> THEN <<>> ELSE Head(ss) \o Flatten(Tail(ss))

Range(s) == {s[i] : i \in 1..Len(s)}

(***************************************************************************)
(* Geometry primitives (turf).                                             *)
(***************************************************************************)
Rect(minX, minY, maxX, maxY) == {<<x, y>> : x \in minX..maxX, y \in minY..maxY}

Disk(p, r) ==
    {q \in Rect(p[1] - r, p[2] - r, p[1] + r, p[2] + r) :
        (q[1] - p[1]) * (q[1] - p[1]) + (q[2] - p[2]) * (q[2] - p[2]) <= r * r}

BufferRegion(R, r) == UNION {Disk(p, r) : p \in R}

BBox(R) ==
    <<MinOf({p[1] : p \in R}), MinOf({p[2] : p \in R}),
      MaxOf({p[1] : p \in R}), MaxOf({p[2] : p \in R})>>

BooleanPointInPolygon(p, R) == p \in R

BooleanOverlap(A, B) ==
    /\ A \cap B # {}
    /\ ~(A \subseteq B)
    /\ ~(B \subseteq A)

Neighbours(p) ==
    {<<p[1] + 1, p[2]>>, <<p[1] - 1, p[2]>>, <<p[1], p[2] + 1>>, <<p[1], p[2] - 1>>}

\* The sites in the concavities of R: outside R with two sides on R.
Notch(R) ==
    {q \in UNION {Neighbours(p) : p \in R} :
        q \notin R /\ Cardinality(Neighbours(q) \cap R) >= 2}

(***************************************************************************)
(* The calculator's options and the inputs it is called with.              *)
(***************************************************************************)
DefaultConfig == [gridResolution |-> 10, bufferSize |-> 2]

CustomConfig == [gridResolution |-> 4, bufferSize |-> 3]

Configs == {DefaultConfig, CustomConfig}

Polygon(ptype, R) == [gtype |-> "Polygon", ptype |-> ptype, cells |-> R]

\* A feature of any geometry type; "none" is a feature without a geometry.
Feature(gtype, ptype, R) == [gtype |-> gtype, ptype |-> ptype, cells |-> R]

StudyRect == Rect(16, -104, 24, -96)

WideStudyRect == Rect(10, -110, 30, -90)

\* constraintData: its keys in insertion order, the study area, and the
\* feature list of every key that is a feature collection.
ConstraintData(parks, coast) ==
    [keys |-> <<"marineParks", "coastline", "studyArea">>,
     studyArea |-> StudyRect,
     features |-> [k \in {"marineParks", "coastline"} |->
                     IF k = "marineParks" THEN parks ELSE coast]]

\* 1: open water.  2: a marine park along the west side and land in the
\* north-east corner.  3: land over the whole study area.  4: a marine park
\* over the whole study area.  5: scene 4 with its keys inserted in another
\* order.  6: a marine park strip between two stretches of open water.
\* 2, 3, 4 and 5 have the same keys and the same counts.  7: a line and a
\* polygon among the marine parks.  8: a point feature named as an island
\* among the marine parks.  9: a marine park feature without a geometry.
\* 10: open water over a study area two coarse default steps wide.
Scene(id) ==
    CASE id = 1 -> ConstraintData(<<>>, <<>>)
      [] id = 2 -> ConstraintData(<<Polygon("Marine Park", Rect(16, -104, 17, -96))>>,
                                  <<Polygon("land", Rect(24, -97, 25, -95))>>)
      [] id = 3 -> ConstraintData(<<Polygon("Marine Park", Rect(16, -104, 17, -96))>>,
                                  <<Polygon("land", Rect(15, -105, 25, -95))>>)
      [] id = 4 -> ConstraintData(<<Polygon("Marine Park", Rect(15, -105, 25, -95))>>,
                                  <<Polygon("land", Rect(24, -97, 25, -95))>>)
      [] id = 6 -> ConstraintData(<<Polygon("Marine Park", Rect(19, -104, 21, -96))>>,
                                  <<>>)
      [] id = 5 -> [ConstraintData(<<Polygon("Marine Park", Rect(15, -105, 25, -95))>>,
                                   <<Polygon("land", Rect(24, -97, 25, -95))>>)
                      EXCEPT !.keys = <<"coastline", "marineParks", "studyArea">>]
      [] id = 7 -> ConstraintData(<<Feature("LineString", "Marine Park",
                                            Rect(20, -104, 20, -96)),
                                    Polygon("Marine Park", Rect(16, -104, 17, -96))>>,
                                  <<>>)
      [] id = 8 -> ConstraintData(<<Feature("Point", "island", {<<16, -104>>})>>, <<>>)
      [] id = 9 -> ConstraintData(<<Feature("none", "Marine Park", {})>>, <<>>)
      [] id = 10 -> [ConstraintData(<<>>, <<>>) EXCEPT !.studyArea = WideStudyRect]

Scenes == 1..6

\* The failures of the geometry primitives and of the file system that one
\* step may meet: none, or every operation of one of the kinds.
FaultChoices(kinds) == {{}} \cup {{k} : k \in kinds}

HasFeatures(data, k) == k \in DOMAIN data.features

(***************************************************************************)
(* generateConstraintHash and the cache key.  The MD5 digest is kept as    *)
(* the text it digests, JSON.stringify(summary): the keys sorted, and the  *)
(* per-key feature counts in the order Object.entries yields the keys,     *)
(* which is the order they were inserted in.                               *)
(***************************************************************************)
FeatureCounts(data) ==
    Flatten([i \in 1..Len(data.keys) |->
        IF HasFeatures(data, data.keys[i])
        THEN <<<<data.keys[i], Len(data.features[data.keys[i]])>>>>
        ELSE <<>>])

GenerateConstraintHash(data) ==
    [keys |-> Range(data.keys), featureCounts |-> FeatureCounts(data)]

CacheKeyWithoutResolution(data, c) ==
    [hash |-> GenerateConstraintHash(data), gridResolution |-> 0]

CacheKey(data, c) ==
    [hash |-> GenerateConstraintHash(data), gridResolution |-> c.gridResolution]

AllKeys == {CacheKey(Scene(s), c) : s \in Scenes, c \in Configs}

NoEntry == [type |-> "none"]

(***************************************************************************)
(* extractLandFeatures, createWaterMask, collectConstraints.               *)
(***************************************************************************)
LandTypes == {"land", "island", "peninsula"}

IsLandLike(f) == f.ptype \in LandTypes

ExtractLandFeatures(data) ==
    (IF HasFeatures(data, "coastline") THEN data.features["coastline"] ELSE <<>>)
    \o Flatten([i \in 1..Len(data.keys) |->
            IF HasFeatures(data, data.keys[i])
            THEN SelectSeq(data.features[data.keys[i]], IsLandLike)
            ELSE <<>>])

RECURSIVE LandUnion(_, _, _)
LandUnion(acc, lands, faults) ==
    IF lands = <<>> THEN acc
    ELSE LandUnion(IF "landUnion" \in faults THEN acc ELSE acc \cup Head(lands).cells,
                   Tail(lands), faults)

LandBufferSize == 1

CreateWaterMask(studyArea, landFeatures, faults) ==
    IF landFeatures = <<>> THEN [threw |-> FALSE, mask |-> studyArea]
    ELSE IF "maskBuffer" \in faults THEN [threw |-> TRUE, mask |-> studyArea]
    ELSE IF "maskDifference" \in faults THEN [threw |-> FALSE, mask |-> studyArea]
    ELSE [threw |-> FALSE,
          mask |-> studyArea \
                   BufferRegion(LandUnion(landFeatures[1].cells, Tail(landFeatures), faults),
                                LandBufferSize)]

ConstraintKeys ==
    <<"portAuthorities", "marineParks", "fishHabitat", "cockburnSound",
      "mooringAreas", "marineInfrastructure", "marineGeomorphic",
      "ausMarineParks", "osmHarbours", "osmMarinas">>

IsPolygonal(f) == f.gtype \in {"Polygon", "MultiPolygon"}

CollectConstraints(data) ==
    Flatten([i \in 1..Len(ConstraintKeys) |->
        IF HasFeatures(data, ConstraintKeys[i])
        THEN SelectSeq(data.features[ConstraintKeys[i]], IsPolygonal)
        ELSE <<>>])

(***************************************************************************)
(* buildSpatialIndex and queryNearbyFeatures.  A feature is referred to by *)
(* its position in the list the index was built from.                      *)
(***************************************************************************)
CellSize == 20

FeatureCells(f) ==
    LET bbox == BBox(f.cells)
    IN  Rect(Floor(bbox[1], CellSize), Floor(bbox[2], CellSize),
             Ceil(bbox[3], CellSize), Ceil(bbox[4], CellSize))

IndexKeySwapped(x, y) == <<y, x>>

IndexKey(x, y) == <<x, y>>

BuildSpatialIndex(features) ==
    LET keys == UNION {{IndexKey(c[1], c[2]) : c \in FeatureCells(features[i])} :
                          i \in 1..Len(features)}
    IN  [k \in keys |->
            SelectSeq([i \in 1..Len(features) |-> i],
                      LAMBDA i : \E c \in FeatureCells(features[i]) :
                                    IndexKey(c[1], c[2]) = k)]

KeepDuplicates(s, seen) == s

\* Lines 356 and 368: the features are collected in a Set.
RECURSIVE Dedup(_, _)
Dedup(s, seen) ==
    IF s = <<>> THEN <<>>
    ELSE IF Head(s) \in seen THEN Dedup(Tail(s), seen)
    ELSE <<Head(s)>> \o Dedup(Tail(s), seen \cup {Head(s)})

QueryNearbyFeatures(spatialIndex, point, radius) ==
    LET cellX == Floor(point[1], CellSize)
        cellY == Floor(point[2], CellSize)
        cellRadius == Ceil(radius, CellSize)
        side == 2 * cellRadius + 1
        cellAt(k) == <<cellX - cellRadius + (k - 1) \div side,
                       cellY - cellRadius + ((k - 1) % side)>>
    IN  Dedup(Flatten([k \in 1..(side * side) |->
                IF cellAt(k) \in DOMAIN spatialIndex
                THEN spatialIndex[cellAt(k)] ELSE <<>>]), {})

(***************************************************************************)
(* generateAdaptiveGrid and generateFineGrid.                              *)
(***************************************************************************)
InConstraint(point, nearby, constraints) ==
    \E i \in 1..Len(nearby) : BooleanPointInPolygon(point, constraints[nearby[i]].cells)

\* The test of one sample point: in the water mask, in no nearby constraint.
PointAccepted(point, waterMask, spatialIndex, constraints, radius) ==
    /\ BooleanPointInPolygon(point, waterMask)
    /\ ~InConstraint(point, QueryNearbyFeatures(spatialIndex, point, radius), constraints)

\* The points of `for (x = min; x <= max; x += step)`, in order.
Steps(min, max, step) ==
    IF max < min THEN <<>>
    ELSE [i \in 1..((max - min) \div step + 1) |-> min + (i - 1) * step]

\* The points of the two nested loops, x outside and y inside.
GridPoints(minX, minY, maxX, maxY, step) ==
    LET xs == Steps(minX, maxX, step)
        ys == Steps(minY, maxY, step)
    IN  [k \in 1..(Len(xs) * Len(ys)) |->
            <<xs[(k - 1) \div Len(ys) + 1], ys[((k - 1) % Len(ys)) + 1]>>]

GenerateFineGrid(minX, minY, maxX, maxY, waterMask, spatialIndex, constraints, c) ==
    SelectSeq(GridPoints(minX, minY, maxX, maxY, c.gridResolution),
              LAMBDA p : PointAccepted(p, waterMask, spatialIndex, constraints,
                                       c.gridResolution))

ProgressEvery == 100

\* The percent values reported inside the coarse scan: one every
\* ProgressEvery processed cells.
GridProgress(processedCells, totalCells) ==
    [k \in 1..(processedCells \div ProgressEvery) |->
        40 + Floor(k * ProgressEvery * 25, totalCells)]

TotalCells(bbox, coarseResolution) ==
    Ceil(bbox[3] - bbox[1], coarseResolution) * Ceil(bbox[4] - bbox[2], coarseResolution)

FineWindowDouble(p, coarseResolution) ==
    <<p[1] - coarseResolution, p[2] - coarseResolution,
      p[1] + coarseResolution, p[2] + coarseResolution>>

\* Lines 161-168: the square handed to generateFineGrid around point p.
FineWindow(p, coarseResolution) ==
    <<p[1] - coarseResolution \div 2, p[2] - coarseResolution \div 2,
      p[1] + coarseResolution \div 2, p[2] + coarseResolution \div 2>>

GenerateAdaptiveGrid(bbox, waterMask, spatialIndex, constraints, c) ==
    LET coarseResolution == c.gridResolution * 2
        coarse == GridPoints(bbox[1], bbox[2], bbox[3], bbox[4], coarseResolution)
        around(p) ==
            IF PointAccepted(p, waterMask, spatialIndex, constraints, coarseResolution)
            THEN <<p>> \o
                 (IF c.gridResolution < coarseResolution
                  THEN LET w == FineWindow(p, coarseResolution)
                       IN  GenerateFineGrid(w[1], w[2], w[3], w[4],
                                            waterMask, spatialIndex, constraints, c)
                  ELSE <<>>)
            ELSE <<>>
    IN  IF waterMask = {}
        THEN [threw |-> TRUE, points |-> <<>>, progress |-> <<>>]
        ELSE [threw |-> FALSE,
              points |-> Flatten([k \in 1..Len(coarse) |-> around(coarse[k])]),
              progress |-> GridProgress(Len(coarse), TotalCells(bbox, coarseResolution))]

\* What the scan does for one sample point, as the calls it makes: the
\* water test, then, only if the point passed it, the query of the index.
WaterEvent(p, pass, around) ==
    [op |-> "water", point |-> p, pass |-> pass, around |-> around]

QueryEvent(p, pass, around) ==
    [op |-> "query", point |-> p, pass |-> pass, around |-> around]

PointEventsQueryFirst(p, pass, around, waterMask) ==
    <<QueryEvent(p, pass, around), WaterEvent(p, pass, around)>>

\* Lines 141-149 and 186-192.
PointEvents(p, pass, around, waterMask) ==
    <<WaterEvent(p, pass, around)>>
    \o (IF BooleanPointInPolygon(p, waterMask)
        THEN <<QueryEvent(p, pass, around)>> ELSE <<>>)

\* Lines 131-176 and 181-209: the calls of the whole scan, in order; around
\* is the coarse point whose square a fine point is sampled in.
ScanEvents(bbox, waterMask, spatialIndex, constraints, c) ==
    LET coarseResolution == c.gridResolution * 2
        coarse == GridPoints(bbox[1], bbox[2], bbox[3], bbox[4], coarseResolution)
        fine(p) == LET w == FineWindow(p, coarseResolution)
                   IN  GridPoints(w[1], w[2], w[3], w[4], c.gridResolution)
        around(p) ==
            PointEvents(p, "coarse", p, waterMask)
            \o (IF /\ PointAccepted(p, waterMask, spatialIndex, constraints,
                                    coarseResolution)
                   /\ c.gridResolution < coarseResolution
                THEN Flatten([k \in 1..Len(fine(p)) |->
                                PointEvents(fine(p)[k], "fine", p, waterMask)])
                ELSE <<>>)
    IN  Flatten([k \in 1..Len(coarse) |-> around(coarse[k])])

(***************************************************************************)
(* createZonesFromPoints and clusterPolygons.                              *)
(***************************************************************************)
RECURSIVE SumSeq(_)
SumSeq(s) == IF s = <<>> THEN 0 ELSE Head(s) + SumSeq(Tail(s))

Centroid(R) ==
    LET pts == SeqOfSet(R)
    IN  <<SumSeq([i \in 1..Len(pts) |-> pts[i][1]]) \div Len(pts),
          SumSeq([i \in 1..Len(pts) |-> pts[i][2]]) \div Len(pts)>>

\* One unit of longitude and of latitude, in metres, at 32 degrees south.
UnitMetresX == 47
UnitMetresY == 55

\* turf.distance, squared, in square metres.
DistanceSq(p, q) ==
    (p[1] - q[1]) * (p[1] - q[1]) * UnitMetresX * UnitMetresX
    + (p[2] - q[2]) * (p[2] - q[2]) * UnitMetresY * UnitMetresY

\* maxDistance = 0.001 kilometres.
MaxDistanceMetres == 1

Linked(polygons, centroids, i, j) ==
    \/ DistanceSq(centroids[i], centroids[j]) <= MaxDistanceMetres * MaxDistanceMetres
    \/ BooleanOverlap(polygons[i], polygons[j])

\* Only the polygons linked to the first one of the cluster are taken.
RECURSIVE ClusterGrowDirectOnly(_, _, _, _, _)
ClusterGrowDirectOnly(polygons, centroids, queue, processed, cluster) ==
    IF queue = <<>> THEN [cluster |-> cluster, processed |-> processed]
    ELSE LET current == Head(queue)
             found == SelectSeq([j \in 1..Len(polygons) |-> j],
                                LAMBDA j : j \notin processed
                                           /\ Linked(polygons, centroids, current, j))
         IN  ClusterGrowDirectOnly(polygons, centroids, Tail(queue),
                                   processed \cup Range(found), cluster \o found)

RECURSIVE ClusterGrow(_, _, _, _, _)
ClusterGrow(polygons, centroids, queue, processed, cluster) ==
    IF queue = <<>> THEN [cluster |-> cluster, processed |-> processed]
    ELSE LET current == Head(queue)
             found == SelectSeq([j \in 1..Len(polygons) |-> j],
                                LAMBDA j : j \notin processed
                                           /\ Linked(polygons, centroids, current, j))
         IN  ClusterGrow(polygons, centroids, Tail(queue) \o found,
                         processed \cup Range(found), cluster \o found)

RECURSIVE ClusterLoop(_, _, _, _, _)
ClusterLoop(polygons, centroids, i, processed, clusters) ==
    IF i > Len(polygons) THEN clusters
    ELSE IF i \in processed
    THEN ClusterLoop(polygons, centroids, i + 1, processed, clusters)
    ELSE LET grown == ClusterGrow(polygons, centroids, <<i>>, processed \cup {i}, <<i>>)
         IN  ClusterLoop(polygons, centroids, i + 1, grown.processed,
                         Append(clusters, grown.cluster))

\* The clusters, each the list of the positions of its polygons.
ClusterPolygons(polygons) ==
    ClusterLoop(polygons, [i \in 1..Len(polygons) |-> Centroid(polygons[i])], 1, {}, <<>>)

BatchSize == 100

\* The percent values reported while buffering: one per batch.
BufferProgress(n) ==
    [k \in 1..Ceil(n, BatchSize) |-> 70 + Floor((k - 1) * BatchSize * 10, n)]

MergeCluster(buffers, cluster, faults) ==
    IF Len(cluster) > 1 /\ "clusterUnion" \in faults THEN <<>>
    ELSE <<UNION {buffers[cluster[i]] : i \in 1..Len(cluster)}>>

CreateZonesUnchecked(points, c, faults) ==
    LET buffers == [i \in 1..Len(points) |-> Disk(points[i], c.bufferSize)]
        clusters == ClusterPolygons(buffers)
    IN  [threw |-> FALSE, buffers |-> buffers, clusters |-> clusters,
         zones |-> Flatten([k \in 1..Len(clusters) |->
                       MergeCluster(buffers, clusters[k], faults)]),
         progress |-> BufferProgress(Len(points))]

CreateZonesFromPoints(points, c, faults) ==
    IF Len(points) = 0
    THEN [threw |-> TRUE, buffers |-> <<>>, clusters |-> <<>>,
          zones |-> <<>>, progress |-> <<>>]
    ELSE LET buffers == [i \in 1..Len(points) |-> Disk(points[i], c.bufferSize)]
             clusters == ClusterPolygons(buffers)
         IN  [threw |-> FALSE, buffers |-> buffers, clusters |-> clusters,
              zones |-> Flatten([k \in 1..Len(clusters) |->
                            MergeCluster(buffers, clusters[k], faults)]),
              progress |-> BufferProgress(Len(points))]

(***************************************************************************)
(* optimizeZones.                                                          *)
(***************************************************************************)
\* turf.area, in square metres: a site stands for 47 m x 55 m.
AreaM2(R) == Cardinality(R) * UnitMetresX * UnitMetresY

MinAreaM2 == 100000

\* turf.simplify: the boundary moves by less than the tolerance, and only
\* across concavities; what it can return for region R.
RECURSIVE SubsetsUpTo(_, _)
SubsetsUpTo(S, k) ==
    IF k = 0 THEN {{}}
    ELSE LET smaller == SubsetsUpTo(S, k - 1)
         IN  smaller \cup {T \cup {q} : T \in smaller, q \in S}

Simplify(R) == {[cells |-> R, spill |-> S] : S \in SubsetsUpTo(Notch(R), MaxSpill)}

ClipNothing(zone, waterMask) == zone

ClipToWater(zone, waterMask) == zone \cap waterMask

\* The failures one call of optimizeZones may meet: <<kind, z, l>> is the
\* failure of the operation of that kind on zone number z and, for a land
\* subtraction, land feature number l (0 otherwise).
Failing(faults, kind, z, l) == <<kind, z, l>> \in faults

RemoveLandOrDrop(clipped, lands, l, failing) ==
    IF failing \cap (l..Len(lands)) # {} THEN {}
    ELSE clipped \ UNION {lands[i].cells : i \in l..Len(lands)}

\* Lines 299-306: the land features from number l on are subtracted in
\* turn; a subtraction that fails is skipped, an empty result ends the loop.
RECURSIVE RemoveLand(_, _, _, _)
RemoveLand(clipped, lands, l, failing) ==
    IF l > Len(lands) \/ clipped = {} THEN clipped
    ELSE RemoveLand(IF l \in failing THEN clipped ELSE clipped \ lands[l].cells,
                    lands, l + 1, failing)

KeepEveryZone(simplified) == TRUE

KeepZone(simplified) == AreaM2(simplified.cells) > MinAreaM2

\* What zone candidate number z becomes: nothing, or one simplified zone.
OptimizeZone(zone, z, waterMask, landFeatures, faults) ==
    IF Failing(faults, "zoneIntersect", z, 0) THEN {<<>>}
    ELSE LET clipped == ClipToWater(zone, waterMask)
             failing == {l \in 1..Len(landFeatures) :
                            Failing(faults, "landDifference", z, l)}
             cleaned == RemoveLand(clipped, landFeatures, 1, failing)
         IN  IF clipped = {} \/ cleaned = {} THEN {<<>>}
             ELSE IF Failing(faults, "zoneSimplify", z, 0) THEN {<<>>}
             ELSE {IF KeepZone(s) THEN <<s>> ELSE <<>> : s \in Simplify(cleaned)}

\* Lines 292-324: the zones from number z on, in input order.
RECURSIVE OptimizeFrom(_, _, _, _, _)
OptimizeFrom(zones, z, waterMask, landFeatures, faults) ==
    IF z > Len(zones) THEN {<<>>}
    ELSE {first \o rest :
            first \in OptimizeZone(zones[z], z, waterMask, landFeatures, faults),
            rest \in OptimizeFrom(zones, z + 1, waterMask, landFeatures, faults)}

OptimizeZones(zones, waterMask, landFeatures, faults) ==
    OptimizeFrom(zones, 1, waterMask, landFeatures, faults)

(***************************************************************************)
(* calculateRecommendedZones: the result, the cache, the invocation frame. *)
(***************************************************************************)
BuildResult(optimizedZones, candidatePoints, constraints, c, t) ==
    [type |-> "FeatureCollection",
     features |-> [i \in 1..Len(optimizedZones) |->
                     [id |-> i,
                      area |-> AreaM2(optimizedZones[i].cells),
                      geometry |-> optimizedZones[i]]],
     metadata |-> [calculatedAt |-> t,
                   totalCandidatePoints |-> Len(candidatePoints),
                   constraintsProcessed |-> Len(constraints),
                   gridResolution |-> c.gridResolution]]

Error(message) == [type |-> "error", message |-> message]

NoPointsMessage == "No valid points found for zone creation"

GetCachedResult(store, cacheKey) == store[cacheKey]

\* What cacheDir holds after cacheResult: the result, or, when the write
\* fails (the failure is caught and logged), what it held before.
CacheNothing(store, cacheKey, result, faults) == store

CacheResult(store, cacheKey, result, faults) ==
    IF "cacheWrite" \in faults THEN store ELSE [store EXCEPT ![cacheKey] = result]

UseCachedWhenForced(cachedResult, forceRecalculate) ==
    cachedResult # NoEntry /\ forceRecalculate

UseCached(cachedResult, forceRecalculate) ==
    cachedResult # NoEntry /\ ~forceRecalculate

IdleFrame ==
    [pc |-> "idle", input |-> 0, force |-> FALSE,
     cacheKey |-> NoEntry, cache0 |-> <<>>, cached |-> NoEntry,
     landFeatures |-> <<>>, waterMask |-> {}, constraints |-> <<>>,
     spatialIndex |-> <<>>, candidatePoints |-> <<>>,
     buffers |-> <<>>, clusters |-> <<>>, zones |-> <<>>,
     optimizedZones |-> <<>>, result |-> NoEntry, stored |-> FALSE,
     ret |-> NoEntry, progress |-> <<>>, trace |-> <<>>]

NoPrev ==
    [outcome |-> "none", input |-> 0, force |-> FALSE, fresh |-> FALSE,
     stored |-> FALSE, ret |-> NoEntry, cacheKey |-> NoEntry, gridResolution |-> 0]

\* What is remembered of an invocation that ended, on a calculator c.
Ended(frame, c) ==
    [outcome |-> frame.pc, input |-> frame.input, force |-> frame.force,
     fresh |-> frame.trace # <<>>, stored |-> frame.stored, ret |-> frame.ret,
     cacheKey |-> frame.cacheKey, gridResolution |-> c.gridResolution]

IdleProgress == [pc |-> "off", bbox |-> <<0, 0, 0, 0>>, points |-> 0, log |-> <<>>]

\* Lines 576-582: zoneCalculationStatus as the server starts.  A date is a
\* one-element sequence holding the time; null is the empty sequence.
zoneCalculationStatus ==
    [inProgress |-> FALSE, lastStarted |-> <<>>, progress |-> 0,
     lastCompleted |-> <<>>, error |-> "null"]

IdleServer ==
    [status |-> zoneCalculationStatus, clock |-> 0, received |-> 0,
     requests |-> <<>>, runs |-> <<>>]

\* The frames of the other specifications, while they are not in use.
IdleSampler == [pc |-> "off"]
IdleOptimizer == [pc |-> "off"]
IdleData == [pc |-> "off"]
IdleLegacy == [pc |-> "off"]

Init ==
    /\ cfg \in Configs
    /\ cache = [k \in AllKeys |-> NoEntry]
    /\ zonesFile = NoEntry
    /\ now = 0
    /\ run = IdleFrame
    /\ prev = NoPrev
    /\ plog = IdleProgress
    /\ srv = IdleServer
    /\ smp = IdleSampler
    /\ opt = IdleOptimizer
    /\ dm = IdleData
    /\ leg = IdleLegacy

Fail(frame, message) == [frame EXCEPT !.pc = "failed", !.ret = Error(message)]

\* Lines 20-30: the call, up to the await of getCachedResult.
Call(s, f) ==
    /\ run.pc \in {"idle", "returned", "failed"}
    /\ now < MaxCalls
    /\ now' = now + 1
    /\ prev' = IF run.pc = "idle" THEN prev ELSE Ended(run, cfg)
    /\ run' = [IdleFrame EXCEPT !.pc = "readCache", !.input = s, !.force = f,
                                !.cacheKey = CacheKey(Scene(s), cfg),
                                !.cache0 = cache]
    /\ UNCHANGED <<cfg, cache, zonesFile, plog, srv, smp, opt, dm, leg>>

\* Lines 7-12: another calculator, with other options, is constructed on the
\* same cache and zones directories once the invocation at hand has ended.
Construct(c) ==
    /\ run.pc \in {"returned", "failed"}
    /\ c # cfg
    /\ cfg' = c
    /\ prev' = Ended(run, cfg)
    /\ run' = IdleFrame
    /\ UNCHANGED <<cache, zonesFile, now, plog, srv, smp, opt, dm, leg>>

\* Lines 30-48: the cache test; on a miss or a forced run, the water mask.
CheckCache ==
    /\ run.pc = "readCache"
    /\ \E F \in FaultChoices({"maskBuffer"}) :
       LET cachedResult == GetCachedResult(cache, run.cacheKey)
           data == Scene(run.input)
           landFeatures == ExtractLandFeatures(data)
           made == CreateWaterMask(data.studyArea, landFeatures, F)
           started == [run EXCEPT !.cached = cachedResult,
                                  !.progress = <<5, 10>>,
                                  !.landFeatures = landFeatures,
                                  !.waterMask = made.mask,
                                  !.trace = <<"waterMask">>]
       IN  run' = IF UseCached(cachedResult, run.force)
                  THEN [run EXCEPT !.pc = "returned", !.cached = cachedResult,
                                   !.progress = <<100>>, !.ret = cachedResult]
                  ELSE IF made.threw THEN Fail(started, "buffer failed")
                  ELSE [started EXCEPT !.pc = "constraints"]
    /\ UNCHANGED <<cfg, cache, zonesFile, now, prev, plog, srv, smp, opt, dm, leg>>

\* Lines 50-53.
ProcessConstraints ==
    /\ run.pc = "constraints"
    /\ run' = [run EXCEPT !.pc = "grid",
                          !.progress = @ \o <<20>>,
                          !.constraints = CollectConstraints(Scene(run.input)),
                          !.trace = @ \o <<"constraints">>]
    /\ UNCHANGED <<cfg, cache, zonesFile, now, prev, plog, srv, smp, opt, dm, leg>>

\* The scan started without waiting for the constraints to be collected.
SampleGridEarly ==
    /\ run.pc \in {"constraints", "grid"}
    /\ LET spatialIndex == BuildSpatialIndex(run.constraints)
           grid == GenerateAdaptiveGrid(BBox(Scene(run.input).studyArea), run.waterMask,
                                        spatialIndex, run.constraints, cfg)
           scanned == [run EXCEPT !.spatialIndex = spatialIndex,
                                  !.candidatePoints = grid.points,
                                  !.progress = @ \o <<30, 40>> \o grid.progress,
                                  !.trace = @ \o <<"index", "grid">>]
       IN  run' = IF grid.threw THEN Fail(scanned, "polygon is null")
                  ELSE [scanned EXCEPT !.pc = "zones"]
    /\ UNCHANGED <<cfg, cache, zonesFile, now, prev, plog, srv, smp, opt, dm, leg>>

\* Lines 55-63: the spatial index and the whole grid scan.
SampleGrid ==
    /\ run.pc = "grid"
    /\ LET spatialIndex == BuildSpatialIndex(run.constraints)
           grid == GenerateAdaptiveGrid(BBox(Scene(run.input).studyArea), run.waterMask,
                                        spatialIndex, run.constraints, cfg)
           scanned == [run EXCEPT !.spatialIndex = spatialIndex,
                                  !.candidatePoints = grid.points,
                                  !.progress = @ \o <<30, 40>> \o grid.progress,
                                  !.trace = @ \o <<"index", "grid">>]
       IN  run' = IF grid.threw THEN Fail(scanned, "polygon is null")
                  ELSE [scanned EXCEPT !.pc = "zones"]
    /\ UNCHANGED <<cfg, cache, zonesFile, now, prev, plog, srv, smp, opt, dm, leg>>

\* Lines 65-68; the union of a cluster may fail.
SynthesiseZones ==
    /\ run.pc = "zones"
    /\ \E F \in FaultChoices({"clusterUnion"}) :
       LET made == CreateZonesFromPoints(run.candidatePoints, cfg, F)
           synthesised == [run EXCEPT !.buffers = made.buffers,
                                      !.clusters = made.clusters,
                                      !.zones = made.zones,
                                      !.progress = @ \o <<70>> \o made.progress,
                                      !.trace = @ \o <<"zones">>]
       IN  run' = IF made.threw THEN Fail(synthesised, NoPointsMessage)
                  ELSE [synthesised EXCEPT !.pc = "optimize"]
    /\ UNCHANGED <<cfg, cache, zonesFile, now, prev, plog, srv, smp, opt, dm, leg>>

\* Lines 70-73.
OptimizeStep ==
    /\ run.pc = "optimize"
    /\ \E optimized \in OptimizeZones(run.zones, run.waterMask, run.landFeatures, {}) :
          run' = [run EXCEPT !.pc = "store",
                             !.optimizedZones = optimized,
                             !.progress = @ \o <<85>>,
                             !.trace = @ \o <<"optimize">>]
    /\ UNCHANGED <<cfg, cache, zonesFile, now, prev, plog, srv, smp, opt, dm, leg>>

\* Lines 75-103: the result is built and written to the cache.
StoreResult ==
    /\ run.pc = "store"
    /\ \E F \in FaultChoices({"cacheWrite"}) :
       LET result == BuildResult(run.optimizedZones, run.candidatePoints,
                                 run.constraints, cfg, now)
       IN  /\ cache' = CacheResult(cache, run.cacheKey, result, F)
           /\ run' = [run EXCEPT !.pc = "save",
                                 !.result = result,
                                 !.stored = "cacheWrite" \notin F,
                                 !.progress = @ \o <<95>>,
                                 !.trace = @ \o <<"cache">>]
    /\ UNCHANGED <<cfg, zonesFile, now, prev, plog, srv, smp, opt, dm, leg>>

\* Lines 105-110: the zones file; a failed write is not caught.
SaveZonesFile ==
    /\ run.pc = "save"
    /\ \E F \in FaultChoices({"zonesWrite"}) :
       IF "zonesWrite" \in F
       THEN /\ zonesFile' = zonesFile
            /\ run' = Fail(run, "write failed")
       ELSE /\ zonesFile' = run.result
            /\ run' = [run EXCEPT !.pc = "finish"]
    /\ UNCHANGED <<cfg, cache, now, prev, plog, srv, smp, opt, dm, leg>>

\* Lines 112-115.
Finish ==
    /\ run.pc = "finish"
    /\ run' = [run EXCEPT !.pc = "returned", !.progress = @ \o <<100>>,
                          !.ret = run.result]
    /\ UNCHANGED <<cfg, cache, zonesFile, now, prev, plog, srv, smp, opt, dm, leg>>

Next ==
    \/ \E s \in Scenes, f \in BOOLEAN : Call(s, f)
    \/ \E c \in Configs : Construct(c)
    \/ CheckCache
    \/ ProcessConstraints
    \/ SampleGrid
    \/ SynthesiseZones
    \/ OptimizeStep
    \/ StoreResult
    \/ SaveZonesFile
    \/ Finish

Spec == Init /\ [][Next]_vars

(***************************************************************************)
(* SpecProgress: the percent values one invocation passes to               *)
(* progressCallback, for a bounding box and a number of accepted points    *)
(* drawn from bounded sets.  The values are computed by the operators the  *)
(* pipeline uses (GridPoints, TotalCells, GridProgress, BufferProgress).   *)
(***************************************************************************)
MaxCellsX == 2
MaxCellsY == 100
MaxPoints == 250

\* Boxes of 1/2, 1, 3/2, ... coarse cells across and 1 or MaxCellsY cells up.
ProgressBoxes(c) ==
    {<<0, 0, c.gridResolution * w, 2 * c.gridResolution * h>> :
        w \in 1..(2 * MaxCellsX), h \in {1, MaxCellsY}}

PointCounts == {0, 1, BatchSize, BatchSize + 1, MaxPoints}

InitProgress ==
    /\ cfg \in Configs
    /\ cache = [k \in AllKeys |-> NoEntry]
    /\ zonesFile = NoEntry
    /\ now = 0
    /\ run = IdleFrame
    /\ prev = NoPrev
    /\ plog \in {[pc |-> "start", bbox |-> b, points |-> n, log |-> <<>>] :
                    b \in ProgressBoxes(cfg), n \in PointCounts}
    /\ srv = IdleServer
    /\ smp = IdleSampler
    /\ opt = IdleOptimizer
    /\ dm = IdleData
    /\ leg = IdleLegacy

\* Lines 38-60.
ReportStart ==
    /\ plog.pc = "start"
    /\ plog' = [plog EXCEPT !.pc = "scan", !.log = <<5, 10, 20, 30, 40>>]
    /\ UNCHANGED <<cfg, cache, zonesFile, now, run, prev, srv, smp, opt, dm, leg>>

\* Lines 127-139: the values reported inside the coarse scan.
ReportScan ==
    /\ plog.pc = "scan"
    /\ LET coarseResolution == cfg.gridResolution * 2
           b == plog.bbox
           processedCells == Len(GridPoints(b[1], b[2], b[3], b[4], coarseResolution))
       IN  plog' = [plog EXCEPT
                      !.pc = "buffer",
                      !.log = @ \o GridProgress(processedCells,
                                                TotalCells(b, coarseResolution))]
    /\ UNCHANGED <<cfg, cache, zonesFile, now, run, prev, srv, smp, opt, dm, leg>>

\* Lines 65 and 211-229: with no point createZonesFromPoints throws.
ReportBuffering ==
    /\ plog.pc = "buffer"
    /\ plog' = IF plog.points = 0
               THEN [plog EXCEPT !.pc = "failed", !.log = @ \o <<70>>]
               ELSE [plog EXCEPT !.pc = "final",
                                 !.log = @ \o <<70>> \o BufferProgress(plog.points)]
    /\ UNCHANGED <<cfg, cache, zonesFile, now, run, prev, srv, smp, opt, dm, leg>>

\* Lines 70-112.
ReportEnd ==
    /\ plog.pc = "final"
    /\ plog' = [plog EXCEPT !.pc = "done", !.log = @ \o <<85, 95, 100>>]
    /\ UNCHANGED <<cfg, cache, zonesFile, now, run, prev, srv, smp, opt, dm, leg>>

NextProgress == ReportStart \/ ReportScan \/ ReportBuffering \/ ReportEnd

SpecProgress == InitProgress /\ [][NextProgress]_vars

(***************************************************************************)
(* The claims.                                                             *)
(***************************************************************************)
Returned == run.pc = "returned"

\* The invocation went past the cache test and ran the pipeline.
Fresh == run.trace # <<>>

Ran(step) == step \in Range(run.trace)

\* C1: a non-forced invocation that finds an entry under its key returns
\* that entry and runs no pipeline step; so a non-forced call right after a
\* call with the same input that stored its result returns that result
\* without sampling the grid again.
C1_CacheHitSkipsPipeline ==
    /\ (run.pc \notin {"idle", "readCache"} /\ ~run.force
            /\ run.cache0[run.cacheKey] # NoEntry)
        => (Returned /\ run.ret = run.cache0[run.cacheKey] /\ run.trace = <<>>)
    /\ (run.pc \notin {"idle", "readCache"} /\ ~run.force
            /\ prev.outcome = "returned" /\ prev.fresh /\ prev.stored
            /\ prev.input = run.input
            /\ prev.gridResolution = cfg.gridResolution)
        => (Returned /\ run.ret = prev.ret /\ ~Ran("grid"))

C1_Witness ==
    /\ Returned /\ ~run.force /\ run.trace = <<>>
    /\ prev.outcome = "returned" /\ prev.fresh /\ prev.stored
    /\ prev.input = run.input /\ run.ret = prev.ret
    /\ prev.gridResolution = cfg.gridResolution
    /\ Len(run.ret.features) > 0

C3_FailureLeavesCache ==
    run.pc = "failed" => cache = run.cache0

\* C4: when the sampler has finished and accepted no point, the invocation
\* fails with the "no valid points" error, and it never goes on to return.
C4_NoPointsFails ==
    /\ (Ran("zones") /\ run.candidatePoints = <<>>)
        => (run.pc = "failed" /\ run.ret = Error(NoPointsMessage))
    /\ (Fresh /\ run.pc \in {"optimize", "store", "save", "finish", "returned"})
        => run.candidatePoints # <<>>

C4_Witness ==
    /\ run.pc = "failed" /\ Ran("grid") /\ Ran("zones")
    /\ run.candidatePoints = <<>>
    /\ run.ret = Error(NoPointsMessage)

\* C5: no invocation returns, and the cache never holds, a result whose
\* feature list is empty.
C5_NeverEmptySuccess ==
    /\ Returned => run.ret.features # <<>>
    /\ \A k \in AllKeys : cache[k] # NoEntry => cache[k].features # <<>>

\* C6: the percent values of one invocation never decrease and lie in 0..100.
C6_ProgressMonotone ==
    \A i \in 1..Len(plog.log) :
        /\ plog.log[i] \in 0..100
        /\ i > 1 => plog.log[i - 1] <= plog.log[i]

C8_ZonesInsideWaterMask ==
    (Returned /\ Fresh) =>
        \A i \in 1..Len(run.ret.features) :
            LET zone == run.ret.features[i].geometry
            IN  zone.cells \cup zone.spill \subseteq run.waterMask

\* C8 amended: every zone of a computed result lies inside the water mask
\* of the run to within the simplification tolerance: what was clipped is
\* inside, and the simplified boundary leaves it only next to the zone.
C8_ZonesInsideWaterMaskWithinTolerance ==
    (Returned /\ Fresh) =>
        \A i \in 1..Len(run.ret.features) :
            LET zone == run.ret.features[i].geometry
            IN  /\ zone.cells \subseteq run.waterMask
                /\ \A q \in zone.spill : Neighbours(q) \cap zone.cells # {}

C8_Witness ==
    /\ Returned /\ Fresh /\ run.landFeatures # <<>>
    /\ \E i \in 1..Len(run.ret.features) :
          LET zone == run.ret.features[i].geometry
          IN  /\ zone.cells \subseteq run.waterMask
              /\ zone.cells # {}
              /\ ~(zone.spill \subseteq run.waterMask)

\* C9: every zone optimizeZones emits, and every feature of a returned
\* result, has an area of at least 0.1 square kilometres.
C9_ZonesMeetMinimumArea ==
    /\ \A i \in 1..Len(run.optimizedZones) :
          AreaM2(run.optimizedZones[i].cells) >= MinAreaM2
    /\ Returned =>
          \A i \in 1..Len(run.ret.features) :
              /\ run.ret.features[i].area >= MinAreaM2
              /\ AreaM2(run.ret.features[i].geometry.cells) >= MinAreaM2

C9_Witness ==
    /\ Returned /\ Fresh /\ Len(run.ret.features) > 0
    /\ Len(run.zones) > 0

\* C10: every point the sampler accepted is in the water mask and in none
\* of the constraints the index was built from.
C10_AcceptedPointsAreValid ==
    Ran("grid") =>
        \A i \in 1..Len(run.candidatePoints) :
            /\ run.candidatePoints[i] \in run.waterMask
            /\ \A j \in 1..Len(run.constraints) :
                  run.candidatePoints[i] \notin run.constraints[j].cells

C10_Witness ==
    /\ Ran("grid") /\ Len(run.candidatePoints) > 0
    /\ \E j \in 1..Len(run.constraints) :
          run.constraints[j].cells \cap run.waterMask # {}

\* Two inputs with the same set of keys and the same feature count per key.
SameSummary(d, e) ==
    /\ Range(d.keys) = Range(e.keys)
    /\ DOMAIN d.features = DOMAIN e.features
    /\ \A k \in DOMAIN d.features : Len(d.features[k]) = Len(e.features[k])

\* C11: the key computed for an invocation is the key of every input that
\* has the same set of constraint keys and the same per-key feature counts,
\* whatever the order of its keys and whatever its geometry.
C11_KeyDependsOnSummaryOnly ==
    run.pc # "idle" =>
        \A s \in Scenes :
            SameSummary(Scene(s), Scene(run.input))
                => CacheKey(Scene(s), cfg) = run.cacheKey

\* C12: calculators that differ in gridResolution compute different keys for
\* the same constraint data, so a result served from the cache was computed
\* at the calculator's own resolution, and a call that follows a call with
\* the same data at another resolution does not return that call's result.
C12_ResolutionSeparatesEntries ==
    /\ (Returned /\ run.trace = <<>>)
        => run.ret.metadata.gridResolution = cfg.gridResolution
    /\ (run.pc # "idle" /\ prev.outcome # "none" /\ prev.input = run.input
            /\ prev.gridResolution # cfg.gridResolution)
        => /\ run.cacheKey # prev.cacheKey
           /\ (Returned /\ prev.outcome = "returned") => run.ret # prev.ret

C12_Witness ==
    /\ Returned /\ Fresh /\ ~run.force
    /\ prev.outcome = "returned" /\ prev.fresh /\ prev.stored
    /\ prev.input = run.input
    /\ prev.gridResolution # cfg.gridResolution
    /\ cache[prev.cacheKey] = prev.ret
    /\ run.ret # prev.ret

\* C13: when subtracting the land from the study area leaves nothing, the
\* invocation ends in the "no valid points" error and never in a result.
C13_AllLandFailsWithNoCandidateArea ==
    (Fresh /\ run.landFeatures # <<>> /\ run.waterMask = {}
        /\ run.pc \notin {"constraints", "grid"})
        => (run.pc = "failed" /\ run.ret = Error(NoPointsMessage))

\* The polygons a chain of links joins to those of S.
RECURSIVE Reach(_, _, _)
Reach(polygons, centroids, S) ==
    LET T == S \cup {j \in 1..Len(polygons) :
                        \E i \in S : Linked(polygons, centroids, i, j)}
    IN  IF T = S THEN S ELSE Reach(polygons, centroids, T)

\* C14: the clusters partition the disks, and each cluster is exactly the
\* set of disks that a chain of linked disks joins to its first disk.
C14_ClustersAreComponents ==
    run.pc = "optimize" =>
        LET polygons == run.buffers
            centroids == [i \in 1..Len(polygons) |-> Centroid(polygons[i])]
            clusters == run.clusters
        IN  /\ \A i \in 1..Len(polygons) :
                  Cardinality({k \in 1..Len(clusters) : i \in Range(clusters[k])}) = 1
            /\ \A k \in 1..Len(clusters) :
                  /\ Len(clusters[k]) = Cardinality(Range(clusters[k]))
                  /\ Range(clusters[k]) = Reach(polygons, centroids, {clusters[k][1]})

\* Two clusters, one of them holding two disks joined only through others.
C14_Witness ==
    /\ run.pc = "optimize" /\ Len(run.clusters) >= 2
    /\ \E k \in 1..Len(run.clusters) :
          \E i, j \in Range(run.clusters[k]) :
              /\ i # j
              /\ ~BooleanOverlap(run.buffers[i], run.buffers[j])
              /\ run.buffers[i] # run.buffers[j]

\* C20: every cluster yields one zone, which holds at least the first disk
\* of the cluster, also when a union inside the cluster fails.
C20_UnionFailureKeepsCluster ==
    run.pc = "optimize" =>
        /\ Len(run.zones) = Len(run.clusters)
        /\ \A k \in 1..Len(run.zones) :
              run.buffers[run.clusters[k][1]] \subseteq run.zones[k]

\* The steps of a computation, in the order of lines 37-103.
PipelineOrder ==
    <<"waterMask", "constraints", "index", "grid", "zones", "optimize", "cache">>

\* C19: the steps an invocation has run are an initial part of the pipeline
\* order, the whole of it when a computed result is returned, and the grid
\* is sampled against the index of all the constraints of the input.
C19_StepsInOrder ==
    /\ Len(run.trace) <= Len(PipelineOrder)
    /\ run.trace = SubSeq(PipelineOrder, 1, Len(run.trace))
    /\ (Returned /\ Fresh) => run.trace = PipelineOrder
    /\ Ran("grid") =>
          /\ run.constraints = CollectConstraints(Scene(run.input))
          /\ run.spatialIndex = BuildSpatialIndex(run.constraints)

C19_Witness ==
    /\ Returned /\ Fresh /\ run.trace = PipelineOrder
    /\ run.constraints # <<>>
    /\ DOMAIN run.spatialIndex # {}

(***************************************************************************)
(* SpecServer: the server around the calculator.  Handlers and timers run  *)
(* one at a time and give way only where they await input or output: a     *)
(* request awaits getLatestZones; a run of performZoneCalculation awaits   *)
(* getAllData, then inside calculateRecommendedZones the cache read, the   *)
(* cache write and the write of the zones file.  All that lies between two *)
(* of these points is one step.  The clock counts ticks of ten minutes.    *)
(***************************************************************************)
MaxTime == 2
MaxRequests == 2
MaxRuns == 2

\* Line 918: 10 * 60 * 1000 milliseconds.
TimeoutTicks == 1

TimeoutMessage == "Calculation timed out after 10 minutes"

\* Lines 556-560: gridResolution 0.005, the default bufferSize.
ServerConfig == DefaultConfig

\* What getAllData, ENHANCED_COASTLINE and STUDY_AREA may amount to.
ServerScenes == {1, 2}

\* Lines 37-100: all that calculateRecommendedZones does between the cache
\* read and the cache write, at time t; progress is the last percent reported.
ComputeZones(data, c, t) ==
    LET landFeatures == ExtractLandFeatures(data)
        made == CreateWaterMask(data.studyArea, landFeatures, {})
        constraints == CollectConstraints(data)
        spatialIndex == BuildSpatialIndex(constraints)
        grid == GenerateAdaptiveGrid(BBox(data.studyArea), made.mask,
                                     spatialIndex, constraints, c)
        made2 == CreateZonesFromPoints(grid.points, c, {})
    IN  IF made.threw
        THEN {[threw |-> TRUE, message |-> "buffer failed", result |-> NoEntry,
               progress |-> 10]}
        ELSE IF grid.threw
        THEN {[threw |-> TRUE, message |-> "polygon is null", result |-> NoEntry,
               progress |-> 40]}
        ELSE IF made2.threw
        THEN {[threw |-> TRUE, message |-> NoPointsMessage, result |-> NoEntry,
               progress |-> 70]}
        ELSE {[threw |-> FALSE, message |-> "",
               result |-> BuildResult(optimized, grid.points, constraints, c, t),
               progress |-> 95] :
                 optimized \in OptimizeZones(made2.zones, made.mask, landFeatures, {})}

\* Lines 780-784.
StartedStatus(status, t) ==
    [status EXCEPT !.inProgress = TRUE, !.lastStarted = <<t>>,
                   !.progress = 0, !.error = "null"]

\* Lines 845-846.
ClearedStatus(status) ==
    [status EXCEPT !.inProgress = FALSE, !.progress = 0]

TimedOutWithoutError(status) ==
    [status EXCEPT !.inProgress = FALSE]

\* Lines 914-918.
TimedOutStatus(status) ==
    [status EXCEPT !.inProgress = FALSE, !.error = TimeoutMessage]

\* Lines 934-938.
CompletedStatus(status, t) ==
    [status EXCEPT !.inProgress = FALSE, !.lastCompleted = <<t>>, !.progress = 100]

\* Lines 941-945.
FailedStatus(status, message) ==
    [status EXCEPT !.inProgress = FALSE, !.error = message]

\* clearTimeout: a timer that has fired stays fired.
ClearTimeout(timer) == IF timer = "armed" THEN "cleared" ELSE timer

Unfinished(r) == r.pc \notin {"done", "failed"}

InitServer ==
    /\ cfg = ServerConfig
    /\ cache = [k \in AllKeys |-> NoEntry]
    /\ zonesFile = NoEntry
    /\ now = 0
    /\ run = IdleFrame
    /\ prev = NoPrev
    /\ plog = IdleProgress
    /\ srv = IdleServer
    /\ smp = IdleSampler
    /\ opt = IdleOptimizer
    /\ dm = IdleData
    /\ leg = IdleLegacy

\* Lines 760-763: a request arrives and getLatestZones lists the zones
\* directory; forceRecalculate is the query parameter.
ReceiveRequest(forceRecalculate) ==
    /\ srv.received < MaxRequests
    /\ srv' = [srv EXCEPT !.received = @ + 1,
                          !.requests =
                  Append(@, [force |-> forceRecalculate,
                             sawFile |-> zonesFile # NoEntry])]
    /\ UNCHANGED <<cfg, cache, zonesFile, now, run, prev, plog, smp, opt, dm, leg>>

\* Lines 763-795: the rest of the handler, and inside it the start of
\* performZoneCalculation up to its first await (lines 912-924).
AnswerRequest(i) ==
    /\ i \in 1..Len(srv.requests)
    /\ LET req == srv.requests[i]
           latestZones == IF req.sawFile THEN zonesFile ELSE NoEntry
           others == SubSeq(srv.requests, 1, i - 1)
                     \o SubSeq(srv.requests, i + 1, Len(srv.requests))
       IN  IF latestZones # NoEntry /\ ~req.force
           THEN srv' = [srv EXCEPT !.requests = others]
           ELSE IF srv.status.inProgress
           THEN srv' = [srv EXCEPT !.requests = others]
           ELSE /\ Len(srv.runs) < MaxRuns
                /\ srv' = [srv EXCEPT
                      !.requests = others,
                      !.status = StartedStatus(@, srv.clock),
                      !.runs = Append(@, [pc |-> "data", timer |-> "armed",
                                          deadline |-> srv.clock + TimeoutTicks,
                                          requested |-> req.force,
                                          force |-> FALSE, input |-> 0,
                                          cacheKey |-> NoEntry, result |-> NoEntry,
                                          wrote |-> FALSE])]
    /\ UNCHANGED <<cfg, cache, zonesFile, now, run, prev, plog, smp, opt, dm, leg>>

\* Lines 924-929 and 20-30: the data is there; calculateRecommendedZones is
\* called without forceRecalculate and awaits the cache read.
DataReady(r, s) ==
    /\ r \in 1..Len(srv.runs)
    /\ srv.runs[r].pc = "data"
    /\ srv' = [srv EXCEPT !.runs[r].pc = "readCache",
                          !.runs[r].input = s,
                          !.runs[r].cacheKey = CacheKey(Scene(s), cfg)]
    /\ UNCHANGED <<cfg, cache, zonesFile, now, run, prev, plog, smp, opt, dm, leg>>

\* Lines 30-103: a hit is returned (and lines 934-938 follow); on a miss the
\* whole computation runs, reporting its progress, up to the cache write.
CacheRead(r) ==
    /\ r \in 1..Len(srv.runs)
    /\ srv.runs[r].pc = "readCache"
    /\ LET this == srv.runs[r]
           cachedResult == GetCachedResult(cache, this.cacheKey)
       IN  IF UseCached(cachedResult, this.force)
           THEN srv' = [srv EXCEPT
                    !.runs[r].pc = "done",
                    !.runs[r].result = cachedResult,
                    !.runs[r].timer = ClearTimeout(@),
                    !.status = CompletedStatus(@, srv.clock)]
           ELSE \E out \in ComputeZones(Scene(this.input), cfg, srv.clock) :
                  IF out.threw
                  THEN srv' = [srv EXCEPT
                           !.runs[r].pc = "failed",
                           !.runs[r].timer = ClearTimeout(@),
                           !.status = FailedStatus([@ EXCEPT !.progress = out.progress],
                                                   out.message)]
                  ELSE srv' = [srv EXCEPT
                           !.runs[r].pc = "writeCache",
                           !.runs[r].result = out.result,
                           !.status.progress = out.progress]
    /\ UNCHANGED <<cfg, cache, zonesFile, now, run, prev, plog, smp, opt, dm, leg>>

\* Lines 103-107 and 486-493: the cache file is written.
CacheWrite(r) ==
    /\ r \in 1..Len(srv.runs)
    /\ srv.runs[r].pc = "writeCache"
    /\ \E F \in FaultChoices({}) :
          /\ cache' = CacheResult(cache, srv.runs[r].cacheKey, srv.runs[r].result, F)
          /\ srv' = [srv EXCEPT !.runs[r].pc = "writeZones",
                                !.runs[r].wrote = "cacheWrite" \notin F]
    /\ UNCHANGED <<cfg, zonesFile, now, run, prev, plog, smp, opt, dm, leg>>

\* Lines 107-119 and 934-945: the zones file is written and the run ends.
ZonesWrite(r) ==
    /\ r \in 1..Len(srv.runs)
    /\ srv.runs[r].pc = "writeZones"
    /\ \E F \in FaultChoices({"zonesWrite"}) :
          IF "zonesWrite" \in F
          THEN /\ zonesFile' = zonesFile
               /\ srv' = [srv EXCEPT
                      !.runs[r].pc = "failed",
                      !.runs[r].timer = ClearTimeout(@),
                      !.status = FailedStatus(@, "write failed")]
          ELSE /\ zonesFile' = srv.runs[r].result
               /\ srv' = [srv EXCEPT
                      !.runs[r].pc = "done",
                      !.runs[r].timer = ClearTimeout(@),
                      !.status = CompletedStatus(@, srv.clock)]
    /\ UNCHANGED <<cfg, cache, now, run, prev, plog, smp, opt, dm, leg>>

\* Lines 914-918: the timer of a run fires.
Timeout(r) ==
    /\ r \in 1..Len(srv.runs)
    /\ srv.runs[r].timer = "armed"
    /\ srv.clock >= srv.runs[r].deadline
    /\ srv' = [srv EXCEPT !.runs[r].timer = "fired",
                          !.status = TimedOutStatus(@)]
    /\ UNCHANGED <<cfg, cache, zonesFile, now, run, prev, plog, smp, opt, dm, leg>>

\* Lines 840-853.
ClearCache ==
    /\ srv' = [srv EXCEPT !.status = ClearedStatus(@)]
    /\ UNCHANGED <<cfg, cache, zonesFile, now, run, prev, plog, smp, opt, dm, leg>>

\* Time passes; a timer that is due fires before more time passes.
Tick ==
    /\ srv.clock < MaxTime
    /\ \A r \in 1..Len(srv.runs) :
          srv.runs[r].timer = "armed" => srv.clock < srv.runs[r].deadline
    /\ srv' = [srv EXCEPT !.clock = @ + 1]
    /\ UNCHANGED <<cfg, cache, zonesFile, now, run, prev, plog, smp, opt, dm, leg>>

NextServer ==
    \/ \E f \in BOOLEAN : ReceiveRequest(f)
    \/ \E i \in 1..MaxRequests : AnswerRequest(i)
    \/ \E r \in 1..MaxRuns, s \in ServerScenes : DataReady(r, s)
    \/ \E r \in 1..MaxRuns : CacheRead(r)
    \/ \E r \in 1..MaxRuns : CacheWrite(r)
    \/ \E r \in 1..MaxRuns : ZonesWrite(r)
    \/ \E r \in 1..MaxRuns : Timeout(r)
    \/ ClearCache
    \/ Tick

SpecServer == InitServer /\ [][NextServer]_vars

\* The runs of performZoneCalculation that have started and not ended.
Executing == {r \in 1..Len(srv.runs) : Unfinished(srv.runs[r])}

\* C15: at most one run of performZoneCalculation is executing at any time.
C15_OneRunAtATime == Cardinality(Executing) <= 1

\* C16: a run that has not ended when more than the timeout has passed
\* since its start has had its timer fire, and the step in which a timer
\* fires leaves inProgress false and error set to the timeout message.
C16_TimeoutMarksRunFailed ==
    /\ [](\A r \in Executing :
            srv.clock > srv.runs[r].deadline => srv.runs[r].timer = "fired")
    /\ [][\A r \in 1..Len(srv.runs) :
            (srv.runs[r].timer = "armed" /\ (srv.runs[r].timer)' = "fired")
                => (~(srv.status.inProgress)' /\ (srv.status.error)' = TimeoutMessage)]_vars

C16_Witness ==
    \E r \in Executing :
        /\ srv.runs[r].timer = "fired"
        /\ srv.clock >= srv.runs[r].deadline
        /\ ~srv.status.inProgress
        /\ srv.status.error = TimeoutMessage

\* C17: once a run has been started the status is one of running, succeeded
\* (no error, progress 100) and failed (error set), and a status with an
\* error set does not also show the run completed (progress 100 and
\* lastCompleted not before lastStarted).
C17_StatusIsOneOfThree ==
    LET st == srv.status
    IN  /\ st.lastStarted # <<>> =>
              \/ st.inProgress
              \/ st.error = "null" /\ st.progress = 100
              \/ st.error # "null"
        /\ ~(/\ ~st.inProgress /\ st.error # "null" /\ st.progress = 100
             /\ st.lastStarted # <<>> /\ st.lastCompleted # <<>>
             /\ st.lastCompleted[1] >= st.lastStarted[1])

\* C18: an entry that exists in the cache is replaced only by the cache write
\* of an invocation that was called with forceRecalculate true.
C18_EntriesOverwrittenOnlyWhenForced ==
    [][\A k \in AllKeys :
          (cache[k] # NoEntry /\ cache'[k] # cache[k]) =>
              \E r \in 1..Len(srv.runs) :
                  /\ srv.runs[r].pc = "writeCache"
                  /\ srv.runs[r].cacheKey = k
                  /\ srv.runs[r].force]_vars

(***************************************************************************)
(* SpecSampler: extractLandFeatures, createWaterMask, collectConstraints,  *)
(* buildSpatialIndex and generateAdaptiveGrid applied, one after another,  *)
(* to each constraintData, under each failure of a water mask primitive.   *)
(***************************************************************************)
SamplerScenes == 1..10

MaskFaults == {"landUnion", "maskBuffer", "maskDifference"}

InitSampler ==
    /\ cfg \in Configs
    /\ cache = [k \in AllKeys |-> NoEntry]
    /\ zonesFile = NoEntry
    /\ now = 0
    /\ run = IdleFrame
    /\ prev = NoPrev
    /\ plog = IdleProgress
    /\ srv = IdleServer
    /\ smp \in {[pc |-> "mask", input |-> s, faults |-> F, landFeatures |-> <<>>,
                 waterMask |-> {}, constraints |-> <<>>, spatialIndex |-> <<>>,
                 events |-> <<>>, points |-> <<>>, buffers |-> <<>>,
                 clusters |-> <<>>, error |-> ""] :
                   s \in SamplerScenes, F \in FaultChoices(MaskFaults)}
    /\ opt = IdleOptimizer
    /\ dm = IdleData
    /\ leg = IdleLegacy

\* Lines 44-48.
MaskStep ==
    /\ smp.pc = "mask"
    /\ LET data == Scene(smp.input)
           landFeatures == ExtractLandFeatures(data)
           made == CreateWaterMask(data.studyArea, landFeatures, smp.faults)
       IN  smp' = [smp EXCEPT !.pc = IF made.threw THEN "failed" ELSE "constraints",
                              !.landFeatures = landFeatures,
                              !.waterMask = made.mask,
                              !.error = IF made.threw THEN "buffer failed" ELSE ""]
    /\ UNCHANGED <<cfg, cache, zonesFile, now, run, prev, plog, srv, opt, dm, leg>>

\* Lines 50-57.
IndexStep ==
    /\ smp.pc = "constraints"
    /\ LET constraints == CollectConstraints(Scene(smp.input))
       IN  smp' = [smp EXCEPT !.pc = "scan",
                              !.constraints = constraints,
                              !.spatialIndex = BuildSpatialIndex(constraints)]
    /\ UNCHANGED <<cfg, cache, zonesFile, now, run, prev, plog, srv, opt, dm, leg>>

\* Lines 59-63.
ScanStep ==
    /\ smp.pc = "scan"
    /\ LET bbox == BBox(Scene(smp.input).studyArea)
           grid == GenerateAdaptiveGrid(bbox, smp.waterMask, smp.spatialIndex,
                                        smp.constraints, cfg)
       IN  smp' = IF grid.threw
                  THEN [smp EXCEPT !.pc = "failed", !.error = "polygon is null"]
                  ELSE [smp EXCEPT !.pc = "done",
                                   !.points = grid.points,
                                   !.events = ScanEvents(bbox, smp.waterMask,
                                                         smp.spatialIndex,
                                                         smp.constraints, cfg)]
    /\ UNCHANGED <<cfg, cache, zonesFile, now, run, prev, plog, srv, opt, dm, leg>>

\* Lines 65-68 and 211-232: the disks around the points and their clusters.
ClusterStep ==
    /\ smp.pc = "done"
    /\ LET made == CreateZonesFromPoints(smp.points, cfg, {})
       IN  smp' = IF made.threw
                  THEN [smp EXCEPT !.pc = "failed", !.error = NoPointsMessage]
                  ELSE [smp EXCEPT !.pc = "clustered",
                                   !.buffers = made.buffers,
                                   !.clusters = made.clusters]
    /\ UNCHANGED <<cfg, cache, zonesFile, now, run, prev, plog, srv, opt, dm, leg>>

NextSampler == MaskStep \/ IndexStep \/ ScanStep \/ ClusterStep

SpecSampler == InitSampler /\ [][NextSampler]_vars

\* The water tests of the scan, in order: one for each sample point.
SampledPoints == SelectSeq(smp.events, LAMBDA e : e.op = "water")

\* The test of a sample point made directly: against the water mask and
\* against every collected constraint, without the index.
PassesTest(p) ==
    /\ p \in smp.waterMask
    /\ \A i \in 1..Len(smp.constraints) : p \notin smp.constraints[i].cells

\* The points of the square of the given side centred on p, step apart.
SquareAround(p, side, step) ==
    {<<p[1] - side \div 2 + i * step, p[2] - side \div 2 + j * step>> :
        i \in 0..(side \div step), j \in 0..(side \div step)}

\* The fine points sampled around the coarse point p.
FineSampled(p) ==
    {SampledPoints[k].point :
        k \in {j \in 1..Len(SampledPoints) :
                  /\ SampledPoints[j].pass = "fine"
                  /\ SampledPoints[j].around = p}}

\* The scan, with the fine square of side `side` around accepted coarse
\* points only, and the same test for coarse and fine points.
FinePassSamples(side) ==
    /\ \A k \in 1..Len(SampledPoints) :
          SampledPoints[k].pass = "coarse" =>
              FineSampled(SampledPoints[k].point) =
                  IF PassesTest(SampledPoints[k].point)
                  THEN SquareAround(SampledPoints[k].point, side, cfg.gridResolution)
                  ELSE {}
    /\ LET accepted == SelectSeq(SampledPoints, LAMBDA e : PassesTest(e.point))
       IN  smp.points = [k \in 1..Len(accepted) |-> accepted[k].point]

\* C21 as stated: the fine pass samples only around accepted coarse points,
\* in a square of side 2 x coarseResolution (4 x gridResolution) stepped at
\* gridResolution, with the same water and constraint test for fine points.
C21_FineSquareTwiceCoarse ==
    smp.pc = "done" => FinePassSamples(2 * (2 * cfg.gridResolution))

\* C21, amended: the same, with a square of side coarseResolution
\* (2 x gridResolution), from x - coarseResolution/2 to x + coarseResolution/2.
C21_FineSquareOneCoarse ==
    smp.pc = "done" => FinePassSamples(2 * cfg.gridResolution)

C21_Witness ==
    /\ smp.pc = "done"
    /\ \E k \in 1..Len(SampledPoints) :
          /\ SampledPoints[k].pass = "coarse"
          /\ ~PassesTest(SampledPoints[k].point)
    /\ \E k \in 1..Len(SampledPoints) :
          /\ SampledPoints[k].pass = "fine"
          /\ SampledPoints[k].point # SampledPoints[k].around
          /\ PassesTest(SampledPoints[k].point)
    /\ \E k \in 1..Len(SampledPoints) :
          /\ SampledPoints[k].pass = "fine"
          /\ ~PassesTest(SampledPoints[k].point)

\* The query points and radii the index is probed with: points inside,
\* beside and far from the features, on and off the cell borders.
QueryPoints ==
    {<<x, y>> : x \in {-25, -1, 0, 15, 16, 20, 25, 39, 40, 41, 65},
                y \in {-150, -121, -120, -105, -100, -96, -80, -79, -60}}

QueryRadii == {1, 4, 10, 20, 21, 45}

\* The disk of radius r around p meets the bounding box.
DiskMeetsBox(p, r, bbox) ==
    LET dx == MaxOf({bbox[1] - p[1], 0, p[1] - bbox[3]})
        dy == MaxOf({bbox[2] - p[2], 0, p[2] - bbox[4]})
    IN  dx * dx + dy * dy <= r * r

\* C22: for the index built by buildSpatialIndex and every query point and
\* radius, queryNearbyFeatures returns every indexed feature whose bounding
\* box meets the disk of that radius around the point (so every feature
\* that contains the point), and returns no feature twice.
C22_QueryFindsEveryNearFeatureOnce ==
    smp.pc \in {"scan", "done"} =>
        \A p \in QueryPoints, r \in QueryRadii :
            LET found == QueryNearbyFeatures(smp.spatialIndex, p, r)
            IN  /\ \A i \in 1..Len(smp.constraints) :
                      DiskMeetsBox(p, r, BBox(smp.constraints[i].cells))
                          => \E k \in 1..Len(found) : found[k] = i
                /\ \A i \in 1..Len(smp.constraints) :
                      p \in smp.constraints[i].cells
                          => \E k \in 1..Len(found) : found[k] = i
                /\ \A k, l \in 1..Len(found) : found[k] = found[l] => k = l

C22_Witness ==
    /\ smp.pc = "scan"
    /\ \E i \in 1..Len(smp.constraints), p \in QueryPoints :
          /\ Cardinality(FeatureCells(smp.constraints[i])) > 1
          /\ \A c \in FeatureCells(smp.constraints[i]) :
                IndexKey(c[1], c[2]) \in DOMAIN smp.spatialIndex
          /\ p \in smp.constraints[i].cells
          /\ i \in Range(QueryNearbyFeatures(smp.spatialIndex, p, cfg.gridResolution))

\* C23: for every sample point, coarse or fine, the water mask test is made
\* first and the index is queried only if the point passed it: every query
\* of the index comes right after the water test of the same point, and
\* that point is inside the water mask.
C23_WaterTestBeforeIndexQuery ==
    smp.pc = "done" =>
        \A k \in 1..Len(smp.events) :
            smp.events[k].op = "query" =>
                /\ k > 1
                /\ smp.events[k - 1].op = "water"
                /\ smp.events[k - 1].point = smp.events[k].point
                /\ smp.events[k - 1].pass = smp.events[k].pass
                /\ BooleanPointInPolygon(smp.events[k].point, smp.waterMask)

C23_Witness ==
    /\ smp.pc = "done"
    /\ \E k \in 1..Len(smp.events) :
          /\ smp.events[k].op = "water"
          /\ smp.events[k].pass = "coarse"
          /\ ~BooleanPointInPolygon(smp.events[k].point, smp.waterMask)
          /\ (k < Len(smp.events) => smp.events[k + 1].op = "water")
    /\ \E k \in 1..Len(smp.events) :
          /\ smp.events[k].op = "water"
          /\ smp.events[k].pass = "fine"
          /\ ~BooleanPointInPolygon(smp.events[k].point, smp.waterMask)
    /\ \E k \in 1..Len(smp.events) :
          smp.events[k].op = "query" /\ smp.events[k].pass = "fine"

\* C24: createWaterMask returns the raw study area when there are no land
\* features or when the difference fails, a failing land union is skipped
\* (the land united so far is kept), and no failure of a primitive inside
\* createWaterMask (union, buffer, difference) makes the run fail.
C24_WaterMaskFailuresAreAbsorbed ==
    smp.pc # "mask" =>
        LET studyArea == Scene(smp.input).studyArea
        IN  /\ (smp.landFeatures = <<>> \/ "maskDifference" \in smp.faults)
                  => smp.waterMask = studyArea
            /\ (smp.landFeatures # <<>> /\ "landUnion" \in smp.faults)
                  => smp.waterMask =
                        studyArea \ BufferRegion(smp.landFeatures[1].cells,
                                                 LandBufferSize)
            /\ smp.faults # {} => ~(smp.pc = "failed" /\ smp.error = "buffer failed")

(***************************************************************************)
(* SpecOptimizer: optimizeZones applied to zone candidates, a water mask   *)
(* and land features, under failures of single primitive calls.            *)
(***************************************************************************)
MaxFaults == 2

\* Zone candidates: two above the area threshold and one below it, apart
\* from one another.
ZoneA == Rect(10, -104, 15, -96)
ZoneB == Rect(20, -104, 25, -96)
ZoneC == Rect(30, -104, 33, -96)

OptimizerZones == {<<ZoneA, ZoneB>>, <<ZoneB, ZoneA>>, <<ZoneA, ZoneC, ZoneB>>}

\* The raw study area, and one that cuts the east of ZoneB and all of ZoneC.
OptimizerMasks == {Rect(8, -106, 35, -94), Rect(8, -106, 24, -94)}

\* Land: a column of ZoneA, another column of ZoneA, a column of ZoneB,
\* and land over all of ZoneA.
OptimizerLands ==
    {<<>>,
     <<Polygon("land", Rect(10, -104, 10, -96)), Polygon("land", Rect(25, -104, 25, -96))>>,
     <<Polygon("land", Rect(10, -104, 10, -96)), Polygon("land", Rect(12, -104, 12, -96)),
       Polygon("land", Rect(25, -104, 25, -96))>>,
     <<Polygon("land", Rect(9, -105, 16, -95)), Polygon("land", Rect(25, -104, 25, -96))>>}

OptimizerFaults ==
    {<<"landDifference", z, l>> : z \in 1..3, l \in 1..2}
    \cup {<<k, z, 0>> : k \in {"zoneIntersect", "zoneSimplify"}, z \in 1..3}

InitOptimizer ==
    /\ cfg = DefaultConfig
    /\ cache = [k \in AllKeys |-> NoEntry]
    /\ zonesFile = NoEntry
    /\ now = 0
    /\ run = IdleFrame
    /\ prev = NoPrev
    /\ plog = IdleProgress
    /\ srv = IdleServer
    /\ smp = IdleSampler
    /\ opt \in {[pc |-> "input", zones |-> Z, waterMask |-> W, landFeatures |-> L,
                 faults |-> F, optimized |-> <<>>] :
                   Z \in OptimizerZones, W \in OptimizerMasks, L \in OptimizerLands,
                   F \in SubsetsUpTo(OptimizerFaults, MaxFaults)}
    /\ dm = IdleData
    /\ leg = IdleLegacy

\* Lines 289-327.
Optimize ==
    /\ opt.pc = "input"
    /\ \E optimized \in OptimizeZones(opt.zones, opt.waterMask, opt.landFeatures,
                                      opt.faults) :
          opt' = [opt EXCEPT !.pc = "done", !.optimized = optimized]
    /\ UNCHANGED <<cfg, cache, zonesFile, now, run, prev, plog, srv, smp, dm, leg>>

NextOptimizer == Optimize

SpecOptimizer == InitOptimizer /\ [][NextOptimizer]_vars

\* The input zone an optimized zone was made from (the inputs are apart).
Origin(k) ==
    CHOOSE z \in 1..Len(opt.zones) : opt.optimized[k].cells \cap opt.zones[z] # {}

\* An error was raised while zone z was processed, outside the subtraction
\* of a land feature.
ZoneFailed(z) ==
    Failing(opt.faults, "zoneIntersect", z, 0)
    \/ (/\ Failing(opt.faults, "zoneSimplify", z, 0)
        /\ ClipToWater(opt.zones[z], opt.waterMask) # {})

\* Zone z inside the water mask, less every land feature whose subtraction
\* from this zone did not fail.
Subtracted(z) ==
    ClipToWater(opt.zones[z], opt.waterMask)
    \ UNION {opt.landFeatures[l].cells :
                l \in {i \in 1..Len(opt.landFeatures) :
                          ~Failing(opt.faults, "landDifference", z, i)}}

\* C25: a failing subtraction of one land feature is skipped (the zone keeps
\* its geometry, the other land features are still subtracted, the zone is
\* not dropped for it), and an error while processing one zone drops only
\* that zone: the others are still processed, in input order.
C25_FailuresAreLocal ==
    opt.pc = "done" =>
        /\ \A k \in 1..Len(opt.optimized) :
              /\ opt.optimized[k].cells = Subtracted(Origin(k))
              /\ ~ZoneFailed(Origin(k))
        /\ \A k, l \in 1..Len(opt.optimized) : k < l => Origin(k) < Origin(l)
        /\ \A z \in 1..Len(opt.zones) :
              (~ZoneFailed(z) /\ AreaM2(Subtracted(z)) > MinAreaM2)
                  => \E k \in 1..Len(opt.optimized) : Origin(k) = z

C25_Witness ==
    /\ opt.pc = "done"
    /\ Len(opt.optimized) = 2
    /\ \E l \in 1..Len(opt.landFeatures) :
          /\ Failing(opt.faults, "landDifference", Origin(1), l)
          /\ opt.landFeatures[l].cells \cap opt.optimized[1].cells # {}
    /\ \E l \in 1..Len(opt.landFeatures) :
          /\ ~Failing(opt.faults, "landDifference", Origin(1), l)
          /\ opt.landFeatures[l].cells \cap opt.zones[Origin(1)] # {}
          /\ opt.landFeatures[l].cells \cap opt.optimized[1].cells = {}
    /\ \E z \in 1..Len(opt.zones) : z < Origin(2) /\ z # Origin(1) /\ ZoneFailed(z)

\* Two accepted points one fine-grid step apart along an axis.
Adjacent(p, q, c) ==
    \/ p[1] = q[1] /\ (p[2] - q[2] = c.gridResolution \/ q[2] - p[2] = c.gridResolution)
    \/ p[2] = q[2] /\ (p[1] - q[1] = c.gridResolution \/ q[1] - p[1] = c.gridResolution)

\* C26: with the default options, twice the buffer radius is at least the
\* spacing of adjacent fine-grid points, so the disks buffered around two
\* adjacent accepted points overlap and the two points fall in one cluster.
C26_DefaultDisksOverlap ==
    (cfg = DefaultConfig /\ smp.pc = "clustered") =>
        /\ 2 * cfg.bufferSize >= cfg.gridResolution
        /\ \A i, j \in 1..Len(smp.points) :
              Adjacent(smp.points[i], smp.points[j], cfg) =>
                  /\ BooleanOverlap(smp.buffers[i], smp.buffers[j])
                  /\ \E k \in 1..Len(smp.clusters) :
                        {i, j} \subseteq Range(smp.clusters[k])

\* constraintData without the features of the constraint collections that
\* are not polygons.
WithoutNonPolygons(data) ==
    [data EXCEPT !.features =
        [k \in DOMAIN data.features |->
            IF k \in Range(ConstraintKeys)
            THEN SelectSeq(data.features[k], IsPolygonal)
            ELSE data.features[k]]]

\* The points lines 44-63 accept for constraintData data.
AcceptedPoints(data, c, faults) ==
    LET made == CreateWaterMask(data.studyArea, ExtractLandFeatures(data), faults)
        constraints == CollectConstraints(data)
    IN  GenerateAdaptiveGrid(BBox(data.studyArea), made.mask,
                             BuildSpatialIndex(constraints), constraints, c).points

\* C27: only Polygon and MultiPolygon features are collected as constraints;
\* a feature of another geometry type, or without a geometry, in a constraint
\* collection never enters the spatial index and never causes a sample
\* point to be rejected: the accepted points are those of the same data
\* without such features.
C27_NonPolygonsAreInert ==
    smp.pc = "done" =>
        /\ \A i \in 1..Len(smp.constraints) : IsPolygonal(smp.constraints[i])
        /\ \A k \in DOMAIN smp.spatialIndex :
              \A i \in Range(smp.spatialIndex[k]) :
                  i \in 1..Len(smp.constraints) /\ IsPolygonal(smp.constraints[i])
        /\ smp.points =
              AcceptedPoints(WithoutNonPolygons(Scene(smp.input)), cfg, smp.faults)

(***************************************************************************)
(* SpecData: DataManager.getAllData over the files of dataDir and          *)
(* fallbackDir and the answers of the network.                             *)
(***************************************************************************)
\* The first data sources of initializeDataSources, in insertion order.
DataKeys == <<"portAuthorities", "marineParks", "fishHabitat">>

EmptyCollection == [type |-> "FeatureCollection", features |-> <<>>]

\* What a file or a download holds for a key; origin tells which it was.
StoredData(key, origin) ==
    [type |-> "FeatureCollection",
     features |-> <<[source |-> key, origin |-> origin]>>]

NoData == [type |-> "none", features |-> <<>>]

\* A file: missing, corrupt (not JSON), or written from some origin.
Readable(file) == file \notin {"missing", "corrupt"}

\* fetch: a GeoJSON answer, an error (status, network, abort), or an answer
\* that is not GeoJSON.
NetOutcomes == {"ok", "error", "invalid"}

StoreFaults == {"writeData", "saveMetadata", "writeFallback"}

InitData ==
    /\ cfg = DefaultConfig
    /\ cache = [k \in AllKeys |-> NoEntry]
    /\ zonesFile = NoEntry
    /\ now = 0
    /\ run = IdleFrame
    /\ prev = NoPrev
    /\ plog = IdleProgress
    /\ srv = IdleServer
    /\ smp = IdleSampler
    /\ opt = IdleOptimizer
    /\ \E local \in [Range(DataKeys) -> {"missing", "corrupt", "local"}],
          fallback \in [Range(DataKeys) -> {"missing", "fallback"}],
          recent \in [Range(DataKeys) -> BOOLEAN] :
          dm = [pc |-> "getData", k |-> 1, local |-> local, fallback |-> fallback,
                first |-> [local |-> local, fallback |-> fallback],
                recent |-> recent,
                net |-> [key \in Range(DataKeys) |-> "none"],
                faults |-> [key \in Range(DataKeys) |-> {}],
                data |-> [key \in Range(DataKeys) |-> NoData]]
    /\ leg = IdleLegacy

\* Lines 244-245: the next key of the loop, or the return of line 253.
Loaded(frame, key, value) ==
    [frame EXCEPT !.data[key] = value,
                  !.k = @ + 1,
                  !.pc = IF frame.k = Len(DataKeys) THEN "returned" ELSE "getData"]

RethrowGetDataError(frame, key) == [frame EXCEPT !.pc = "threw"]

\* Lines 247-250: the catch of getAllData.
OnGetDataError(frame, key) == Loaded(frame, key, EmptyCollection)

\* Lines 228-239: getData reads the local file.
GetData ==
    /\ dm.pc = "getData"
    /\ LET key == DataKeys[dm.k]
       IN  dm' = IF Readable(dm.local[key])
                 THEN Loaded(dm, key, StoredData(key, dm.local[key]))
                 ELSE [dm EXCEPT !.pc = "download"]
    /\ UNCHANGED <<cfg, cache, zonesFile, now, run, prev, plog, srv, smp, opt, leg>>

\* Lines 112-185: downloadAndStoreData up to its catch.
Download(outcome, F) ==
    /\ dm.pc = "download"
    /\ LET key == DataKeys[dm.k]
           tried == [dm EXCEPT !.net[key] = outcome]
       IN  dm' =
             IF dm.recent[key] /\ Readable(dm.local[key])
             THEN Loaded(dm, key, StoredData(key, dm.local[key]))
             ELSE IF outcome # "ok" THEN [tried EXCEPT !.pc = "fallback"]
             ELSE IF "writeData" \in F
             THEN [tried EXCEPT !.pc = "fallback", !.faults[key] = F]
             ELSE IF "saveMetadata" \in F \/ "writeFallback" \in F
             THEN [tried EXCEPT !.pc = "fallback", !.faults[key] = F,
                                !.local[key] = "download", !.recent[key] = TRUE]
             ELSE Loaded([tried EXCEPT !.local[key] = "download",
                                       !.fallback[key] = "download",
                                       !.recent[key] = TRUE],
                         key, StoredData(key, "download"))
    /\ UNCHANGED <<cfg, cache, zonesFile, now, run, prev, plog, srv, smp, opt, leg>>

\* Lines 185-198 and 247-250: the fallback file, or the error that getData
\* passes on to getAllData.
Fallback ==
    /\ dm.pc = "fallback"
    /\ LET key == DataKeys[dm.k]
       IN  dm' = IF Readable(dm.fallback[key])
                 THEN Loaded(dm, key, StoredData(key, dm.fallback[key]))
                 ELSE OnGetDataError(dm, key)
    /\ UNCHANGED <<cfg, cache, zonesFile, now, run, prev, plog, srv, smp, opt, leg>>

NextData ==
    \/ GetData
    \/ \E outcome \in NetOutcomes, F \in FaultChoices(StoreFaults) : Download(outcome, F)
    \/ Fallback

SpecData == InitData /\ [][NextData]_vars

\* Loading the category failed entirely: no readable local file, no usable
\* download, no readable fallback file.
FailedEntirely(key) ==
    /\ ~Readable(dm.first.local[key])
    /\ dm.net[key] \in {"error", "invalid"}
    /\ ~Readable(dm.first.fallback[key])

\* C28: getAllData never fails; a category whose loading failed entirely is
\* returned as an empty feature collection, and every other category is
\* still loaded: from its local file if there is one, else from the
\* download, else from the fallback file.
C28_GetAllDataNeverFails ==
    /\ dm.pc # "threw"
    /\ dm.pc = "returned" =>
          \A key \in Range(DataKeys) :
              /\ dm.data[key] # NoData
              /\ FailedEntirely(key) => dm.data[key] = EmptyCollection
              /\ Readable(dm.first.local[key])
                    => dm.data[key] = StoredData(key, "local")
              /\ (~Readable(dm.first.local[key]) /\ dm.net[key] = "ok"
                      /\ dm.faults[key] = {})
                    => dm.data[key] = StoredData(key, "download")
              /\ (~Readable(dm.first.local[key]) /\ dm.net[key] # "ok"
                      /\ Readable(dm.first.fallback[key]))
                    => dm.data[key] = StoredData(key, "fallback")

C28_Witness ==
    /\ dm.pc = "returned"
    /\ FailedEntirely(DataKeys[2])
    /\ dm.data[DataKeys[2]] = EmptyCollection
    /\ dm.data[DataKeys[1]] = StoredData(DataKeys[1], "download")
    /\ dm.data[DataKeys[3]] = StoredData(DataKeys[3], "local")

\* C29: a run started by a request that carried forceRecalculate invokes
\* the engine with forceRecalculate set, and does not end by returning the
\* entry the cache held under its key.
C29_ForcedRequestRecomputes ==
    \A r \in 1..Len(srv.runs) :
        srv.runs[r].requested =>
            /\ srv.runs[r].pc # "data" => srv.runs[r].force
            /\ ~(/\ srv.runs[r].pc = "done"
                 /\ ~srv.runs[r].wrote
                 /\ srv.runs[r].result = cache[srv.runs[r].cacheKey])

(***************************************************************************)
(* SpecLegacy: /api/recommendedZones and performZoneCalculation of         *)
(* server.js.  The handler has no await and is one step; the run is cut at *)
(* its awaits.  The run has no timer of its own.                           *)
(***************************************************************************)
MaxLegacyRequests == 3

\* server.js lines 1083-1090.
LegacyKeys ==
    <<"portAuthorities", "marineParks", "fishHabitat", "cockburnSound",
      "mooringAreas", "marineInfrastructure">>

NoRun == [pc |-> "none", k |-> 0, constraintCount |-> 0]

InitLegacy ==
    /\ cfg = DefaultConfig
    /\ cache = [k \in AllKeys |-> NoEntry]
    /\ zonesFile = NoEntry
    /\ now = 0
    /\ run = IdleFrame
    /\ prev = NoPrev
    /\ plog = IdleProgress
    /\ srv = IdleServer
    /\ smp = IdleSampler
    /\ opt = IdleOptimizer
    /\ dm = IdleData
    /\ leg = [status |-> zoneCalculationStatus, cachedZones |-> FALSE,
              cachedConstraints |-> FALSE, cachedLayers |-> {},
              received |-> 0, run |-> NoRun]

\* server.js lines 1068-1071: updateProgress.
UpdateProgress(value) == MinOf({99, MaxOf({5, value})})

\* server.js lines 863-937: the handler.
LegacyRequest ==
    /\ leg.received < MaxLegacyRequests
    /\ leg' = IF leg.cachedZones \/ leg.status.inProgress
              THEN [leg EXCEPT !.received = @ + 1]
              ELSE [leg EXCEPT !.received = @ + 1,
                               !.status = StartedStatus(@, leg.received),
                               !.run = [NoRun EXCEPT !.pc = "scheduled"]]
    /\ UNCHANGED <<cfg, cache, zonesFile, now, run, prev, plog, srv, smp, opt, dm>>

\* server.js lines 911 and 1054-1100: process.nextTick runs
\* performZoneCalculation up to its first await.
StartCalculation ==
    /\ leg.run.pc = "scheduled"
    /\ leg' = IF leg.cachedConstraints
              THEN [leg EXCEPT !.status.progress = 25, !.run.pc = "compute"]
              ELSE [leg EXCEPT !.status.progress = 5,
                               !.run.pc = "headers", !.run.k = 1]
    /\ UNCHANGED <<cfg, cache, zonesFile, now, run, prev, plog, srv, smp, opt, dm>>

\* server.js lines 1116-1120: one more constraint layer was obtained.
Counted(frame) ==
    [frame EXCEPT !.run.pc = "pause",
                  !.run.constraintCount = @ + 1,
                  !.status.progress =
                      UpdateProgress(5 + ((frame.run.constraintCount + 1) * 20)
                                             \div Len(LegacyKeys))]

\* server.js lines 108-116, 58-103 and 130-137: a layer held by dataCache
\* is returned at once; else rateLimitedFetch settles, with the response
\* headers or, each attempt being aborted after its timeout, with an error,
\* after which the fallback data is taken.
Headers(ok) ==
    /\ leg.run.pc = "headers"
    /\ leg' = IF LegacyKeys[leg.run.k] \in leg.cachedLayers THEN Counted(leg)
              ELSE IF ok THEN [leg EXCEPT !.run.pc = "body"]
              ELSE Counted(leg)
    /\ UNCHANGED <<cfg, cache, zonesFile, now, run, prev, plog, srv, smp, opt, dm>>

\* server.js lines 117-137: response.json() settles, after the abort timer
\* was cleared (line 81); GeoJSON is kept in dataCache, a body that is not
\* GeoJSON gives the fallback data.
Body(valid) ==
    /\ leg.run.pc = "body"
    /\ leg' = IF valid
              THEN Counted([leg EXCEPT !.cachedLayers =
                                           @ \cup {LegacyKeys[leg.run.k]}])
              ELSE Counted(leg)
    /\ UNCHANGED <<cfg, cache, zonesFile, now, run, prev, plog, srv, smp, opt, dm>>

\* server.js lines 1096-1133: the pause after a layer, then the next layer
\* or the end of the loop.
Pause ==
    /\ leg.run.pc = "pause"
    /\ leg' = IF leg.run.k < Len(LegacyKeys)
              THEN [leg EXCEPT !.run.pc = "headers", !.run.k = @ + 1]
              ELSE [leg EXCEPT !.run.pc = "compute", !.cachedConstraints = TRUE]
    /\ UNCHANGED <<cfg, cache, zonesFile, now, run, prev, plog, srv, smp, opt, dm>>

\* server.js lines 1136-1331: the computation, its pauses included, up to
\* the completion or to the catch.
Compute(threw) ==
    /\ leg.run.pc = "compute"
    /\ leg' = IF threw
              THEN [leg EXCEPT !.run.pc = "failed",
                               !.status = FailedStatus(@, "calculation failed")]
              ELSE [leg EXCEPT !.run.pc = "done",
                               !.cachedZones = TRUE,
                               !.status = CompletedStatus(@, leg.received)]
    /\ UNCHANGED <<cfg, cache, zonesFile, now, run, prev, plog, srv, smp, opt, dm>>

\* server.js line 12 and line 1076: the cached entries expire.
Expire ==
    /\ leg.cachedZones \/ leg.cachedConstraints \/ leg.cachedLayers # {}
    /\ leg' = [leg EXCEPT !.cachedZones = FALSE, !.cachedConstraints = FALSE,
                          !.cachedLayers = {}]
    /\ UNCHANGED <<cfg, cache, zonesFile, now, run, prev, plog, srv, smp, opt, dm>>

NextLegacy ==
    \/ LegacyRequest
    \/ StartCalculation
    \/ \E ok \in BOOLEAN : Headers(ok)
    \/ \E valid \in BOOLEAN : Body(valid)
    \/ Pause
    \/ \E threw \in BOOLEAN : Compute(threw)
    \/ Expire

\* The steps that the event loop and the timers of the code bring about are
\* taken when they can be; the arrival of a response body is not.
SpecLegacy ==
    /\ InitLegacy
    /\ [][NextLegacy]_vars
    /\ WF_vars(StartCalculation)
    /\ WF_vars(\E ok \in BOOLEAN : Headers(ok))
    /\ WF_vars(Pause)
    /\ WF_vars(\E threw \in BOOLEAN : Compute(threw))

\* C30: every calculation started by /api/recommendedZones eventually sets
\* inProgress back to false, so the server never stays in the calculating
\* state for ever.
C30_CalculationEventuallyEnds ==
    [](leg.status.inProgress => <>(~leg.status.inProgress))

=============================================================================
